---- MODULE Spec2Model ----
(***************************************************************************)
(* Portal session controllers of the Mufasa Real Assistant front-ends.     *)
(*                                                                         *)
(* The repository holds several independently evolved variants of the same *)
(* controller, each the script of a page of its own:                       *)
(*   "main"   : the chat page with per-portal memory (part_002, state.js,  *)
(*              api.js, the portal table of part_001);                     *)
(*   "portal" : the 30-day portal page (portal.js, top level);             *)
(*   "import" : the embeddable portal (portal.js, importPortal);           *)
(*   "ui"     : the dashboard portal (ui.js, openPortal).                  *)
(* A behaviour is the life of one page: `page` is fixed by Init.           *)
(*                                                                         *)
(* A text is a sequence of tokens; the token " " is a white-space          *)
(* character, every other token stands for non-blank characters.  The      *)
(* empty sequence is the empty string (falsy in the source).               *)
(* A handler's `userInput.value` is the input `text` of its action: every  *)
(* handler reads the field once, at the click.                             *)
(***************************************************************************)
EXTENDS Integers, Sequences, FiniteSets

VARIABLES
  page,          \* which variant's script runs in this page
  hasSynth,      \* the platform has window.speechSynthesis
  transcript,    \* the chat element's children: <<[role, txt], ...>>
  pending,       \* async continuations waiting on fetch, in order of issue
  errors,        \* what escaped every handler so far: the kinds of the errors
                 \* rejections and uncaught exceptions ("remote", "speech", "image")
  portals,       \* localStorage "portals": portal id -> record (partial map)
  activePortal,  \* localStorage "activePortal": a portal id or Null
  currentPortal, \* portal.js: let currentPortal
  currentDay,    \* portal.js: let currentDay
  journals,      \* portal.js: let journals, and localStorage "mufasa_journals"
  mufasa_portal, \* localStorage "mufasa_portal": an id ("" while the key is absent)
  mufasa_day,    \* localStorage "mufasa_day": digits (<<>> while the key is absent)
  started,       \* importPortal: localStorage "portal.<id>.started" is set
  lastImageDate, \* importPortal: localStorage "<id>.lastImageDate" ("" while absent)
  uiPortal,      \* ui.js: the portal openPortal last rendered, or Null
  progress,      \* ui.js: the stored resume codes, portal id -> code (partial map)
  okSubmits,     \* history: [on, n], n successful submits so far while on
  idem           \* history: the run of successive portal selections (see IdemOff)

mainVars == <<portals, activePortal>>
portalVars == <<currentPortal, currentDay, journals, mufasa_portal, mufasa_day>>
importVars == <<started, lastImageDate>>
uiVars == <<uiPortal, progress>>
vars == <<page, hasSynth, transcript, pending, errors, mainVars, portalVars,
          importVars, uiVars, okSubmits, idem>>

-----------------------------------------------------------------------------
(* Bounds of the model.                                                    *)

MaxMsgs == 4      \* longest transcript explored on the main page
MaxChat == 3      \* longest transcript explored on the other pages
MaxPending == 2   \* most requests in flight at once
MaxOk == 40       \* most successful submits counted

-----------------------------------------------------------------------------
(* Texts.                                                                  *)

Null == "null"
Sp == " "

\* what the user can have typed (or dictated) when a send handler runs
Inputs == { <<>>, <<Sp>>, <<Sp, Sp>>, <<"a">>, <<Sp, "a">>, <<"b", Sp>> }

RECURSIVE TrimStart(_)
TrimStart(s) ==
  IF s # <<>> /\ Head(s) = Sp THEN TrimStart(Tail(s)) ELSE s

RECURSIVE TrimEnd(_)
TrimEnd(s) ==
  IF s # <<>> /\ s[Len(s)] = Sp THEN TrimEnd(SubSeq(s, 1, Len(s) - 1)) ELSE s

\* String.prototype.trim
Trim(s) == TrimEnd(TrimStart(s))

Msg(role, txt) == [role |-> role, txt |-> txt]

-----------------------------------------------------------------------------
(* Static configuration: window.MUFASA_CFG.PORTALS.                        *)

Portals == {"maat", "decolonize"}

PortalTitle(p) ==
  IF p = "maat" THEN "Order of Ma'at" ELSE "Decolonize the Mind"

PortalStart(p) ==
  IF p = "maat" THEN <<"What is the Order of Ma'at?">>
  ELSE <<"How do I know if my mind has been decolonized?">>

-----------------------------------------------------------------------------
(* The remote answer service, as fetch sees it.                            *)

Answers == { <<"x">>, <<>> }

\* fetch: "resolved" | "rejected"; ok: Response.ok; json: the body parses;
\* answer: the body's `answer` (<<>> when missing or empty)
Responses ==
  { [fetch |-> "resolved", ok |-> TRUE, json |-> TRUE, answer |-> a] : a \in Answers }
  \cup { [fetch |-> "rejected", ok |-> FALSE, json |-> FALSE, answer |-> <<>>],
         [fetch |-> "resolved", ok |-> FALSE, json |-> TRUE, answer |-> <<>>],
         [fetch |-> "resolved", ok |-> TRUE, json |-> FALSE, answer |-> <<>>] }

NoResponse == <<"(no response)">>
ConnError == <<"Connection error.">>

\* askMufasa rejects: fetch rejected, !r.ok, or r.json() rejected
AskMufasaThrows(resp) ==
  resp.fetch = "rejected" \/ ~resp.ok \/ ~resp.json

\* askMufasa's value when it does not reject: data.answer || "(no response)"
AskMufasa(resp) ==
  IF resp.answer # <<>> THEN resp.answer ELSE NoResponse

-----------------------------------------------------------------------------
(* AppState (state.js).                                                    *)

EmptyRecord == [lastQuestion |-> <<>>, lastAnswer |-> <<>>]

\* AppState.getPortal(id)
GetPortal(id) ==
  IF id \in DOMAIN portals THEN portals[id] ELSE EmptyRecord

\* savePortal as it would be if it wrote a fresh map instead of loading the old
SavePortalOnly(id, record) == [x \in {id} |-> record]

\* AppState.savePortal(id, record): the new value of "portals"
SavePortal(id, record) ==
  [x \in (DOMAIN portals) \cup {id} |-> IF x = id THEN record ELSE portals[x]]

\* savePortalMemory(portalId, q, a); the ts field (Date.now()) is not modelled
SavePortalMemory(portalId, q, a) ==
  SavePortal(portalId, [lastQuestion |-> q, lastAnswer |-> a])

\* the test `mem.lastQuestion && mem.lastAnswer`
HasMemory(p) ==
  GetPortal(p).lastQuestion # <<>> /\ GetPortal(p).lastAnswer # <<>>

-----------------------------------------------------------------------------
(* History of successive portal selections on the main page.  While it is  *)
(* on, `idem` holds the portal p of the current run of selectPortal(p)     *)
(* calls that no submit interrupts, each made with no request in flight,   *)
(* the length n of the run (2: two or more), the transcript `view` that    *)
(* the call before the last one left once its request had resolved, and    *)
(* the responses `resps` the service gave during the run.                  *)

IdemOff == [on |-> FALSE, p |-> Null, n |-> 0, view |-> <<>>, resps |-> {}]
IdemReset == [idem EXCEPT !.p = Null, !.n = 0, !.view = <<>>, !.resps = {}]
IdemSelect(p) ==
  IF ~idem.on THEN idem
  ELSE IF pending # <<>> THEN IdemReset
  ELSE IF idem.p = p /\ idem.n >= 1
       THEN [idem EXCEPT !.n = 2, !.view = transcript]
       ELSE [idem EXCEPT !.p = p, !.n = 1, !.view = <<>>, !.resps = {}]
IdemResolve(resp) ==
  IF idem.on /\ idem.n >= 1 THEN [idem EXCEPT !.resps = @ \cup {resp}] ELSE idem

-----------------------------------------------------------------------------
(* The main page (part_002).                                               *)

Request(q, active) == [q |-> q, active |-> active, stage |-> "ask"]

\* the handler as it would be if it displayed the field's value untrimmed
SendChatRaw(chat, text) ==
  IF Trim(text) = <<>> THEN chat ELSE Append(chat, Msg("user", text))

\* sendBtn.onclick up to its await, on a chat window holding `chat`:
\* the new chat window and the new list of continuations
SendChat(chat, text) ==
  IF Trim(text) = <<>> THEN chat ELSE Append(chat, Msg("user", Trim(text)))

SendPending(text) ==
  IF Trim(text) = <<>> THEN pending
  ELSE Append(pending, Request(Trim(text), activePortal))

\* the user types `text` and clicks send (or dictates it: recognition.onresult)
MainSubmit(text) ==
  /\ page = "main"
  /\ Len(SendPending(text)) <= MaxPending
  /\ Len(SendChat(transcript, text)) + Len(SendPending(text)) <= MaxMsgs
  /\ transcript' = SendChat(transcript, text)
  /\ pending' = SendPending(text)
  /\ UNCHANGED <<page, hasSynth, errors, portals, activePortal, portalVars,
                 importVars, uiVars, okSubmits>>
  /\ idem' = IdemReset

\* loadPortalMemory as it would be with the two roles exchanged
LoadPortalMemorySwapped(chat, portalId) ==
  IF GetPortal(portalId).lastQuestion # <<>> /\ GetPortal(portalId).lastAnswer # <<>>
  THEN chat \o << Msg("bot", GetPortal(portalId).lastQuestion),
                  Msg("user", GetPortal(portalId).lastAnswer) >>
  ELSE chat

\* loadPortalMemory(portalId) on a chat window holding `chat`
LoadPortalMemory(chat, portalId) ==
  IF HasMemory(portalId)
  THEN chat \o << Msg("user", GetPortal(portalId).lastQuestion),
                  Msg("bot", GetPortal(portalId).lastAnswer) >>
  ELSE chat

ResumeMsg(p) == Msg("bot", <<"Resuming your last session on ", PortalTitle(p), "...">>)

\* the chat window after a portal button's onclick
SelectChat(p) ==
  IF HasMemory(p)
  THEN LoadPortalMemory(<<ResumeMsg(p)>>, p)
  ELSE SendChat(<<>>, PortalStart(p))

\* the onclick as it would be if it sent the portal's title, not its start
SelectPendingTitle(p) ==
  IF HasMemory(p) THEN pending ELSE SendPending(<<PortalTitle(p)>>)

SelectPending(p) ==
  IF HasMemory(p) THEN pending ELSE SendPending(PortalStart(p))

\* a portal button's onclick
SelectPortal(p) ==
  /\ page = "main"
  /\ Len(SelectPending(p)) <= MaxPending
  /\ Len(SelectChat(p)) + Len(SelectPending(p)) <= MaxMsgs
  /\ transcript' = SelectChat(p)
  /\ pending' = SelectPending(p)
  /\ activePortal' = p
  /\ UNCHANGED <<page, hasSynth, errors, portals, portalVars, importVars, uiVars,
                 okSubmits>>
  /\ idem' = IdemSelect(p)

Without(s, i) == SubSeq(s, 1, i - 1) \o SubSeq(s, i + 1, Len(s))

\* the rest of sendBtn.onclick, once askMufasa settles with `resp`
MainChatAfter(req, resp) ==
  IF AskMufasaThrows(resp)
  THEN Append(transcript, Msg("bot", ConnError))
  ELSE Append(transcript, Msg("bot", AskMufasa(resp)))

\* the handler as it would be if it recorded the exchange after the catch too
MainPortalsAfterAlways(req, resp) ==
  IF req.active # Null
  THEN SavePortalMemory(req.active, req.q,
                        IF AskMufasaThrows(resp) THEN ConnError ELSE AskMufasa(resp))
  ELSE portals

MainPortalsAfter(req, resp) ==
  IF ~AskMufasaThrows(resp) /\ req.active # Null
  THEN SavePortalMemory(req.active, req.q, AskMufasa(resp))
  ELSE portals

MainResolve(i, resp) ==
  /\ page = "main"
  /\ i \in 1..Len(pending)
  /\ transcript' = MainChatAfter(pending[i], resp)
  /\ portals' = MainPortalsAfter(pending[i], resp)
  /\ pending' = Without(pending, i)
  /\ UNCHANGED <<page, hasSynth, errors, activePortal, portalVars, importVars,
                 uiVars, okSubmits>>
  /\ idem' = IdemResolve(resp)

\* the page is loaded again: the script starts over on the stored state
MainReload ==
  /\ page = "main"
  /\ transcript' = <<>>
  /\ pending' = <<>>
  /\ UNCHANGED <<page, hasSynth, errors, portals, activePortal, portalVars,
                 importVars, uiVars, okSubmits>>
  /\ idem' = IdemReset

NextMain ==
  \/ \E text \in Inputs : MainSubmit(text)
  \/ \E p \in Portals : SelectPortal(p)
  \/ \E i \in 1..MaxPending + 1, resp \in Responses : MainResolve(i, resp)
  \/ MainReload

-----------------------------------------------------------------------------
(* The 30-day portal page (portal.js, top level).                          *)

LastDay == 30
NaN == -1
Today == "today"

\* the <option> values of #portal-selector
SelectorOptions == {"maat", "decolonize"}

Digits == <<"0", "1", "2", "3", "4", "5", "6", "7", "8", "9">>

\* String(n), n a natural number
RECURSIVE NumToString(_)
NumToString(n) ==
  IF n < 10 THEN <<Digits[n + 1]>>
  ELSE Append(NumToString(n \div 10), Digits[(n % 10) + 1])

IsDigit(c) == \E d \in 1..10 : Digits[d] = c
DigitValue(c) == (CHOOSE d \in 1..10 : Digits[d] = c) - 1

\* the value of the digits at the start of s, after acc
RECURSIVE ParseDigits(_, _)
ParseDigits(s, acc) ==
  IF s # <<>> /\ IsDigit(Head(s))
  THEN ParseDigits(Tail(s), 10 * acc + DigitValue(Head(s)))
  ELSE acc

\* parseInt(s) on a string without sign
ParseInt(s) ==
  IF TrimStart(s) # <<>> /\ IsDigit(Head(TrimStart(s)))
  THEN ParseDigits(TrimStart(s), 0)
  ELSE NaN

\* localStorage.getItem(key) || def: null and the empty string are both falsy
GetItemOr(item, def) == IF item = <<>> THEN def ELSE item

\* updateProgress as it would be without the Math.min
NextDayUncapped(day) == IF day = NaN THEN NaN ELSE day + 1

\* Math.min(currentDay + 1, 30)
NextDay(day) ==
  IF day = NaN THEN NaN
  ELSE IF day + 1 < LastDay THEN day + 1 ELSE LastDay

NoReply == <<"(no reply)">>
AIError == <<"Error reaching AI service.">>
JournalSaved == <<"Journal saved.">>
EnteredMsg(p) == Msg("bot", <<"You've entered the ", p, " portal.">>)
ResumingMsg(p) == Msg("bot", <<"Resuming ", p, " portal.">>)

\* payload.question
PortalQuestion(text) ==
  IF currentPortal # "" THEN <<"[", currentPortal, "] ">> \o text ELSE text

\* the history counter, one success later (it stops at MaxOk)
NotCounting == [on |-> FALSE, n |-> 0]
Counted(c) == IF c.on /\ c.n < MaxOk THEN [c EXCEPT !.n = @ + 1] ELSE c

\* the send button: sendToAI(userInput.value) up to its await
PortalSend(text) ==
  /\ page = "portal"
  /\ IF Trim(text) = <<>>
     THEN UNCHANGED <<transcript, pending>>
     ELSE /\ Len(pending) < MaxPending
          /\ Len(transcript) + Len(pending) + 2 <= MaxChat
          /\ transcript' = Append(transcript, Msg("user", text))
          /\ pending' = Append(pending, Request(PortalQuestion(text), Null))
  /\ UNCHANGED <<page, hasSynth, errors, mainVars, portalVars, importVars, uiVars,
                 okSubmits, idem>>

\* the try block of sendToAI throws: fetch rejected, !res.ok, res.json() rejected
SendToAIThrows(resp) ==
  resp.fetch = "rejected" \/ ~resp.ok \/ ~resp.json

\* data.answer || "(no reply)"
Reply(resp) == IF resp.answer # <<>> THEN resp.answer ELSE NoReply

\* the rest of sendToAI once fetch settles with `resp`; on success
\* updateProgress() and markCalendar() (which only redraws)
PortalResolve(i, resp) ==
  /\ page = "portal"
  /\ i \in 1..Len(pending)
  /\ pending' = Without(pending, i)
  /\ IF SendToAIThrows(resp)
     THEN /\ transcript' = Append(transcript, Msg("bot", AIError))
          /\ UNCHANGED <<currentDay, mufasa_day, okSubmits, idem>>
     ELSE /\ transcript' = Append(transcript, Msg("bot", Reply(resp)))
          /\ currentDay' = NextDay(currentDay)
          /\ mufasa_day' = NumToString(NextDay(currentDay))
          /\ okSubmits' = Counted(okSubmits)
  /\ UNCHANGED <<page, hasSynth, errors, mainVars, currentPortal, journals,
                 mufasa_portal, importVars, uiVars, idem>>

\* #portal-selector's change listener
PortalChange(p) ==
  /\ page = "portal"
  /\ 1 + Len(pending) <= MaxChat
  /\ currentPortal' = p
  /\ mufasa_portal' = p
  /\ transcript' = <<EnteredMsg(p)>>
  /\ UNCHANGED <<page, hasSynth, errors, pending, mainVars, currentDay, journals,
                 mufasa_day, importVars, uiVars, okSubmits, idem>>

\* the save-journal button, journalInput.value = text
JournalSave(text) ==
  /\ page = "portal"
  /\ IF Trim(text) = <<>>
     THEN UNCHANGED <<transcript, journals>>
     ELSE /\ Len(transcript) + Len(pending) + 1 <= MaxChat
          /\ journals' = [d \in (DOMAIN journals) \cup {Today} |->
                            IF d = Today THEN Trim(text) ELSE journals[d]]
          /\ transcript' = Append(transcript, Msg("bot", JournalSaved))
  /\ UNCHANGED <<page, hasSynth, errors, pending, mainVars, currentPortal,
                 currentDay, mufasa_portal, mufasa_day, importVars, uiVars,
                 okSubmits, idem>>

\* the script's start on the stored state: the let declarations, then initState()
PortalStartup(storedPortal, storedDay) ==
  /\ currentPortal' = storedPortal
  /\ transcript' = IF storedPortal # "" THEN <<ResumingMsg(storedPortal)>> ELSE <<>>
  /\ currentDay' = NextDay(ParseInt(GetItemOr(storedDay, <<"1">>)))
  /\ mufasa_day' = NumToString(NextDay(ParseInt(GetItemOr(storedDay, <<"1">>))))
  /\ pending' = <<>>

\* the page is loaded again
PortalReload ==
  /\ page = "portal"
  /\ PortalStartup(mufasa_portal, mufasa_day)
  /\ UNCHANGED <<page, hasSynth, errors, mainVars, journals, mufasa_portal,
                 importVars, uiVars, okSubmits, idem>>

NextPortal ==
  \/ \E text \in Inputs : PortalSend(text)
  \/ \E i \in 1..MaxPending + 1, resp \in Responses : PortalResolve(i, resp)
  \/ \E p \in SelectorOptions : PortalChange(p)
  \/ \E text \in Inputs : JournalSave(text)
  \/ PortalReload

-----------------------------------------------------------------------------
(* The embeddable portal (portal.js, importPortal(config)).                *)

\* config.portalId and config.defaultPrompt of the page's call
ImportPortalId == "maat"
DefaultPrompt == <<"Begin.">>

SystemPrompt == <<"U-CORE:v1 MODE=UNPOLARIZED BIND=", ImportPortalId,
                  " OUTPUT=PHASED RESUME_RULE=DAY1 END">>
ImageRequest(answer) ==
  [q |-> <<"Generate an image that represents this response: ">> \o answer,
   active |-> Null, stage |-> "img"]
NoResponseImport == <<"No response.">>

\* ask(prompt) up to its first await, on a chat box holding `chat`
AskChat(chat, prompt) == Append(chat, Msg("user", prompt))
AskPending(reqs, prompt) ==
  Append(reqs, Request(SystemPrompt \o <<"\n\n">> \o prompt, Null))

\* speak(text) of importPortal throws: synth is undefined
ImportSpeakThrows == ~hasSynth

\* sendBtn.onclick of importPortal
ImportSend(text) ==
  /\ page = "import"
  /\ IF Trim(text) = <<>>
     THEN UNCHANGED <<transcript, pending>>
     ELSE /\ Len(pending) < MaxPending
          /\ Len(transcript) + Len(pending) + 2 <= MaxChat
          /\ transcript' = AskChat(transcript, Trim(text))
          /\ pending' = AskPending(pending, Trim(text))
  /\ UNCHANGED <<page, hasSynth, errors, mainVars, portalVars, importVars, uiVars,
                 okSubmits, idem>>

\* an await of ask rejects: fetch rejected, or res.json() rejected
\* (res.ok is never read)
AskRejects(resp) == resp.fetch = "rejected" \/ ~resp.json

\* data.answer || "No response."
ImportAnswer(resp) == IF resp.answer # <<>> THEN resp.answer ELSE NoResponseImport

\* the rest of ask once its fetch settles with `resp`
ImportAskResolve(i, resp) ==
  /\ pending[i].stage = "ask"
  /\ IF AskRejects(resp)
     THEN /\ errors' = errors \cup {"remote"}
          /\ pending' = Without(pending, i)
          /\ UNCHANGED <<transcript, lastImageDate>>
     ELSE /\ transcript' = Append(transcript, Msg("bot", ImportAnswer(resp)))
          /\ IF ImportSpeakThrows
             THEN /\ errors' = errors \cup {"speech"}
                  /\ pending' = Without(pending, i)
                  /\ UNCHANGED lastImageDate
             ELSE /\ UNCHANGED errors
                  /\ IF lastImageDate # Today
                     THEN /\ lastImageDate' = Today
                          /\ pending' = Append(Without(pending, i),
                                               ImageRequest(ImportAnswer(resp)))
                     ELSE /\ pending' = Without(pending, i)
                          /\ UNCHANGED lastImageDate

\* the rest of ask once its image fetch settles with `resp`: a body without
\* `answer` (an error body) makes imgData.answer.match throw; no answer of
\* the model holds a URL, so revealImage is not called
ImportImageResolve(i, resp) ==
  /\ pending[i].stage = "img"
  /\ pending' = Without(pending, i)
  /\ errors' = IF AskRejects(resp) THEN errors \cup {"remote"}
               ELSE IF ~resp.ok THEN errors \cup {"image"}
               ELSE errors
  /\ UNCHANGED <<transcript, lastImageDate>>

ImportResolve(i, resp) ==
  /\ page = "import"
  /\ i \in 1..Len(pending)
  /\ ImportAskResolve(i, resp) \/ ImportImageResolve(i, resp)
  /\ UNCHANGED <<page, hasSynth, mainVars, portalVars, started, uiVars, okSubmits, idem>>

\* ttsBtn.onclick: speak(chatBox.lastChild?.textContent || "")
ImportTts ==
  /\ page = "import"
  /\ errors' = IF ImportSpeakThrows THEN errors \cup {"speech"} ELSE errors
  /\ UNCHANGED <<page, hasSynth, transcript, pending, mainVars, portalVars,
                 importVars, uiVars, okSubmits, idem>>

\* importPortal(config) on the stored state: the initial question is asked once
ImportStartup(wasStarted) ==
  /\ transcript' = IF wasStarted THEN <<>> ELSE AskChat(<<>>, DefaultPrompt)
  /\ pending' = IF wasStarted THEN <<>> ELSE AskPending(<<>>, DefaultPrompt)
  /\ started' = TRUE

\* the page is loaded again
ImportReload ==
  /\ page = "import"
  /\ ImportStartup(started)
  /\ UNCHANGED <<page, hasSynth, errors, mainVars, portalVars, lastImageDate, uiVars,
                 okSubmits, idem>>

NextImport ==
  \/ \E text \in Inputs : ImportSend(text)
  \/ \E i \in 1..MaxPending + 1, resp \in Responses : ImportResolve(i, resp)
  \/ ImportTts
  \/ ImportReload

-----------------------------------------------------------------------------
(* The dashboard portal (ui.js, openPortal(portalId)); CONFIG of part_000. *)

UiPortals == {"MAAT30", "DECLO30"}

Undefined == <<"undefined">>
Continue == <<"Continue">>

\* saveProgress(portalId, code).  Every code saved is empty (see UiResolve),
\* so openPortal's `resume = loadProgress(portalId) || "START"` is "START"
SaveProgress(p, code) ==
  [x \in (DOMAIN progress) \cup {p} |-> IF x = p THEN code ELSE progress[x]]

\* a continuation of an earlier openPortal holds that call's #messages,
\* which the new render has removed from the page
Detach(reqs) == [k \in 1..Len(reqs) |-> [reqs[k] EXCEPT !.stage = "detached"]]

\* openPortal(portalId)
UiOpenPortal(p) ==
  /\ page = "ui"
  /\ uiPortal' = p
  /\ transcript' = <<>>
  /\ pending' = Detach(pending)
  /\ UNCHANGED <<page, hasSynth, errors, mainVars, portalVars, importVars, progress,
                 okSubmits, idem>>

\* send(msg) up to its await: askMufasa is called with the payload object
UiSendMsg(msg) ==
  /\ page = "ui"
  /\ uiPortal # Null
  /\ Len(pending) < MaxPending
  /\ Len(transcript) + Len(pending) + 2 <= MaxChat
  /\ transcript' = Append(transcript, Msg("user", msg))
  /\ pending' = Append(pending, Request(msg, uiPortal))
  /\ UNCHANGED <<page, hasSynth, errors, mainVars, portalVars, importVars, uiVars,
                 okSubmits, idem>>

\* #sendBtn: send(input.value)
UiSend(text) == UiSendMsg(text)

\* #contBtn: send("Continue")
UiContinue == UiSendMsg(Continue)

\* the rest of send once askMufasa settles: its value is a string, so
\* data.answer and data.next_resume_code are undefined
UiResolve(i, resp) ==
  /\ page = "ui"
  /\ i \in 1..Len(pending)
  /\ pending' = Without(pending, i)
  /\ IF AskMufasaThrows(resp)
     THEN /\ errors' = errors \cup {"remote"}
          /\ UNCHANGED <<transcript, progress>>
     ELSE /\ transcript' = IF pending[i].stage = "ask"
                           THEN Append(transcript, Msg("bot", Undefined))
                           ELSE transcript
          /\ progress' = SaveProgress(pending[i].active, <<>>)
          /\ UNCHANGED errors
  /\ UNCHANGED <<page, hasSynth, mainVars, portalVars, importVars, uiPortal,
                 okSubmits, idem>>

\* the page is loaded again: renderDashboard()
UiReload ==
  /\ page = "ui"
  /\ uiPortal' = Null
  /\ transcript' = <<>>
  /\ pending' = <<>>
  /\ UNCHANGED <<page, hasSynth, errors, mainVars, portalVars, importVars, progress,
                 okSubmits, idem>>

NextUi ==
  \/ \E p \in UiPortals : UiOpenPortal(p)
  \/ \E text \in Inputs : UiSend(text)
  \/ UiContinue
  \/ \E i \in 1..MaxPending + 1, resp \in Responses : UiResolve(i, resp)
  \/ UiReload

-----------------------------------------------------------------------------
(* Initial states: the page's script has run on an empty localStorage.     *)

Platform ==
  /\ hasSynth \in BOOLEAN
  /\ errors = {}

NoMainState ==
  /\ portals = << >>
  /\ activePortal = Null

NoPortalState ==
  /\ currentPortal = ""
  /\ currentDay = 1
  /\ journals = << >>
  /\ mufasa_portal = ""
  /\ mufasa_day = <<>>

NoImportState ==
  /\ started = FALSE
  /\ lastImageDate = ""

NoUiState ==
  /\ uiPortal = Null
  /\ progress = << >>

InitMain ==
  /\ page = "main"
  /\ Platform
  /\ transcript = <<>>
  /\ pending = <<>>
  /\ NoMainState /\ NoPortalState /\ NoImportState /\ NoUiState

InitPortal ==
  /\ page = "portal"
  /\ Platform
  /\ NoMainState /\ NoImportState /\ NoUiState
  /\ journals = << >>
  /\ mufasa_portal = ""
  /\ currentPortal = ""
  /\ transcript = <<>>
  /\ pending = <<>>
  /\ currentDay = NextDay(ParseInt(<<"1">>))
  /\ mufasa_day = NumToString(NextDay(ParseInt(<<"1">>)))

InitImport ==
  /\ page = "import"
  /\ Platform
  /\ NoMainState /\ NoPortalState /\ NoUiState
  /\ transcript = AskChat(<<>>, DefaultPrompt)
  /\ pending = AskPending(<<>>, DefaultPrompt)
  /\ started = TRUE
  /\ lastImageDate = ""

InitUi ==
  /\ page = "ui"
  /\ Platform
  /\ transcript = <<>>
  /\ pending = <<>>
  /\ NoMainState /\ NoPortalState /\ NoImportState /\ NoUiState

Init ==
  /\ InitMain \/ InitPortal \/ InitImport \/ InitUi
  /\ okSubmits = NotCounting
  /\ idem = IdemOff

Next == NextMain \/ NextPortal \/ NextImport \/ NextUi

Spec == Init /\ [][Next]_vars

\* the 30-day portal page with its successful submits counted
\* (on a platform with speech output: speakText returns at once without it)
InitDay ==
  /\ InitPortal
  /\ hasSynth
  /\ okSubmits = [on |-> TRUE, n |-> 0]
  /\ idem = IdemOff
SpecDay == InitDay /\ [][NextPortal]_vars

\* the main page with its runs of portal selections recorded
InitIdem ==
  /\ InitMain
  /\ okSubmits = NotCounting
  /\ idem = [IdemOff EXCEPT !.on = TRUE]
SpecIdem == InitIdem /\ [][NextMain]_vars

-----------------------------------------------------------------------------
(* What the claims speak of, stated apart from the handlers.               *)

\* the remote call succeeded: fetch resolved with a success status and JSON
Succeeded(resp) == resp.fetch = "resolved" /\ resp.ok /\ resp.json

\* the remote call failed: rejected fetch, non-success status, malformed JSON
Failed(resp) == ~Succeeded(resp)

\* the answer a successful call delivers: the body's answer, or the
\* controller's placeholder when the body has none
Delivered(resp) == IF resp.answer = <<>> THEN <<"(no response)">> ELSE resp.answer

Blank(text) == \A k \in 1..Len(text) : text[k] = " "

Last(s) == s[Len(s)]

\* a Session Record is stored for portal p
RecordExists(p) == p \in DOMAIN portals

SessionRecord(q, a) == [lastQuestion |-> q, lastAnswer |-> a]

ErrorTexts == { <<"Connection error.">>, <<"Error reaching AI service.">> }

-----------------------------------------------------------------------------
(* C1.  As stated: a successful submit(text) with an active portal appends *)
(* one user message with content text, then one bot message with the       *)
(* answer, and the active portal's record becomes {text, answer}.          *)
C1_AsStated ==
  [][ /\ \A text \in Inputs :
           (MainSubmit(text) /\ ~Blank(text) /\ activePortal # Null)
             => transcript' = Append(transcript, Msg("user", text))
      /\ \A i \in 1..MaxPending + 1, resp \in Responses :
           (MainResolve(i, resp) /\ Succeeded(resp) /\ pending[i].active # Null)
             => /\ transcript' = Append(transcript, Msg("bot", Delivered(resp)))
                /\ portals'[pending[i].active]
                     = SessionRecord(pending[i].q, Delivered(resp)) ]_vars

(* C1, amended.  A submit(text) with non-blank text appends exactly one    *)
(* user message whose content is text trimmed, and issues one request that *)
(* carries the trimmed text and the portal active at the submit; when that *)
(* request succeeds, exactly one bot message with the answer is appended   *)
(* and the record of the portal that was active at the submit becomes      *)
(* {lastQuestion: trimmed text, lastAnswer: answer}.                       *)
C1_SubmitRecorded ==
  [][ /\ \A text \in Inputs :
           (MainSubmit(text) /\ ~Blank(text))
             => /\ transcript' = Append(transcript, Msg("user", Trim(text)))
                /\ pending' = Append(pending,
                                [q |-> Trim(text), active |-> activePortal,
                                 stage |-> "ask"])
      /\ \A i \in 1..MaxPending + 1, resp \in Responses :
           (MainResolve(i, resp) /\ Succeeded(resp))
             => /\ transcript' = Append(transcript, Msg("bot", Delivered(resp)))
                /\ pending[i].active # Null
                     => portals'[pending[i].active]
                          = SessionRecord(pending[i].q, Delivered(resp)) ]_vars

\* a submit typed with a leading blank was answered and recorded
C1_Witness ==
  /\ page = "main"
  /\ activePortal = "maat"
  /\ pending = <<>>
  /\ Len(transcript) >= 2
  /\ transcript[Len(transcript) - 1] = Msg("user", <<"a">>)
  /\ Last(transcript) = Msg("bot", <<"x">>)
  /\ RecordExists("maat")
  /\ portals["maat"] = SessionRecord(<<"a">>, <<"x">>)

-----------------------------------------------------------------------------
-----------------------------------------------------------------------------
(* C3.  For every portal p, selectPortal(p) while no Session Record is     *)
(* stored for p issues exactly one request, and its question is p's        *)
(* starting prompt.                                                        *)
C3_SelectWithoutRecord ==
  [][ \A p \in Portals :
        (SelectPortal(p) /\ ~RecordExists(p))
          => /\ Len(pending') = Len(pending) + 1
             /\ SubSeq(pending', 1, Len(pending)) = pending
             /\ Last(pending').q = PortalStart(p) ]_vars

\* a portal was selected for the first time: its starting prompt is in flight
C3_Witness ==
  /\ page = "main"
  /\ activePortal = "decolonize"
  /\ ~RecordExists("decolonize")
  /\ transcript = <<Msg("user", PortalStart("decolonize"))>>
  /\ Len(pending) = 1
  /\ pending[1].q = PortalStart("decolonize")

-----------------------------------------------------------------------------
(* C4.  For every portal p with a Session Record {q, a}, selectPortal(p)   *)
(* displays q as a user message and then a as a bot message, and issues no *)
(* request.                                                                *)
C4_SelectWithRecord ==
  [][ \A p \in Portals :
        (SelectPortal(p) /\ RecordExists(p))
          => /\ pending' = pending
             /\ Len(transcript') >= 2
             /\ transcript'[Len(transcript') - 1]
                  = Msg("user", portals[p].lastQuestion)
             /\ Last(transcript') = Msg("bot", portals[p].lastAnswer) ]_vars

\* a portal with a stored pair was selected: the pair is displayed, nothing
\* is in flight
C4_Witness ==
  /\ page = "main"
  /\ activePortal = "maat"
  /\ RecordExists("maat")
  /\ pending = <<>>
  /\ Len(transcript) = 3
  /\ transcript[1] = ResumeMsg("maat")
  /\ transcript[2] = Msg("user", portals["maat"].lastQuestion)
  /\ transcript[3] = Msg("bot", portals["maat"].lastAnswer)

-----------------------------------------------------------------------------
(* C5.  In every send path, a submit whose text is empty or only white     *)
(* space is a no-op: no message is appended and no request is issued.      *)
C5_BlankSubmitNoOp ==
  [][ \A text \in Inputs :
        (Blank(text) /\ (MainSubmit(text) \/ PortalSend(text)
                           \/ ImportSend(text) \/ UiSend(text)))
          => /\ transcript' = transcript
             /\ pending' = pending ]_vars

-----------------------------------------------------------------------------
(* C6.  The day-counter, in memory and as persisted, never exceeds 30      *)
(* whatever page initialisations and successful or failed submits occur;   *)
(* starting from day 1 it is at least one more than the number of          *)
(* successful submits until it reaches 30, so after 40 of them it reads    *)
(* 30.  (Stated for SpecDay,    which counts the successful submits.)      *)
C6_DayCounterCapped ==
  /\ currentDay >= 1
  /\ currentDay <= 30
  /\ ParseInt(mufasa_day) = currentDay
  /\ okSubmits.n < 29 => currentDay >= 1 + okSubmits.n
  /\ okSubmits.n >= 29 => currentDay = 30
  /\ okSubmits.n >= 40 => currentDay = 30

\* forty submits have succeeded
C6_Witness ==
  /\ page = "portal"
  /\ okSubmits.n = 40
  /\ currentDay = 30
  /\ mufasa_day = <<"3", "0">>

-----------------------------------------------------------------------------
(* C7.  selectPortal is idempotent on the transcript: when selectPortal(p) *)
(* is called twice in succession with no submit in between, each call made *)
(* with no request in flight and the service answering alike throughout,   *)
(* the transcript once the second call's request has resolved equals the   *)
(* transcript the first call left.  (Stated for SpecIdem, which records  *)
(* the runs of selections.)                                                *)
C7_SelectIdempotent ==
  (idem.on /\ idem.n = 2 /\ pending = <<>> /\ Cardinality(idem.resps) <= 1)
    => transcript = idem.view

-----------------------------------------------------------------------------
(* C8.  In every variant of the request path a failed remote call is       *)
(* caught where it is awaited: it never escapes as an unhandled rejection, *)
(* and it appends an inline error message to the transcript.               *)
C8_FailureCaught ==
  [][ \A i \in 1..MaxPending + 1, resp \in Responses :
        (Failed(resp) /\ (MainResolve(i, resp) \/ PortalResolve(i, resp)
                           \/ ImportResolve(i, resp) \/ UiResolve(i, resp)))
          => /\ "remote" \notin errors'
             /\ Len(transcript') = Len(transcript) + 1
             /\ Last(transcript').role = "bot"
             /\ Last(transcript').txt \in ErrorTexts ]_vars

-----------------------------------------------------------------------------
(* C9.  On a platform without speech output no speak entry point throws:   *)
(* nothing escapes from a speech call, so the handler that made the call   *)
(* runs on to its end.                                                     *)
C9_SpeechDegradesSilently ==
  ~hasSynth => "speech" \notin errors

-----------------------------------------------------------------------------
(* C10.  Under overlapping submits whose responses resolve in any order,   *)
(* each portal has at most one Session Record and writes are last write    *)
(* wins: only a successful response writes, it writes the record of the    *)
(* portal that was active at its submit, the record becomes exactly that   *)
(* submit's question paired with that response's answer, and every other   *)
(* portal's record stays as it was.  So once all responses have resolved,  *)
(* a portal's record is the pair of the success that resolved last for it. *)
C10_LastWriteWins ==
  [][ /\ DOMAIN portals' \subseteq Portals
      /\ \A i \in 1..MaxPending + 1, resp \in Responses :
           MainResolve(i, resp)
             => IF Succeeded(resp) /\ pending[i].active # Null
                THEN /\ DOMAIN portals' = (DOMAIN portals) \cup {pending[i].active}
                     /\ portals'[pending[i].active]
                          = SessionRecord(pending[i].q, Delivered(resp))
                     /\ \A o \in (DOMAIN portals) \ {pending[i].active} :
                          portals'[o] = portals[o]
                ELSE portals' = portals
      /\ (\A i \in 1..MaxPending + 1, resp \in Responses : ~MainResolve(i, resp))
           => portals' = portals ]_vars

\* two submits overlapped and the second was answered first: the record is
\* the pair of the first, which resolved last
C10_Witness ==
  /\ page = "main"
  /\ pending = <<>>
  /\ transcript = << Msg("user", <<"a">>), Msg("user", <<"b">>),
                      Msg("bot", <<"(no response)">>), Msg("bot", <<"x">>) >>
  /\ RecordExists("maat")
  /\ portals["maat"] = SessionRecord(<<"a">>, <<"x">>)

-----------------------------------------------------------------------------
(* C11.  After selectPortal(p) for a portal p with no Session Record,      *)
(* once the starting-prompt request succeeds the answer is recorded under  *)
(* p and under no other portal: p's record becomes p's starting prompt     *)
(* paired with the answer, the record of every other portal (the           *)
(* previously active one among them) is unchanged, and p's record is then  *)
(* one a later selectPortal(p) resumes from.  The starting prompts are     *)
(* texts no user input of the model equals, so a request asking p's        *)
(* starting prompt is the one selectPortal(p) issued.                      *)
C11_StartAnswerRecorded ==
  [][ \A i \in 1..MaxPending + 1, resp \in Responses, p \in Portals :
        ( /\ MainResolve(i, resp)
          /\ Succeeded(resp)
          /\ pending[i].q = PortalStart(p) )
          => /\ p \in DOMAIN portals'
             /\ portals'[p] = SessionRecord(PortalStart(p), Delivered(resp))
             /\ portals'[p].lastQuestion # <<>> /\ portals'[p].lastAnswer # <<>>
             /\ \A o \in Portals \ {p} :
                  /\ (o \in DOMAIN portals') = (o \in DOMAIN portals)
                  /\ o \in DOMAIN portals => portals'[o] = portals[o] ]_vars

-----------------------------------------------------------------------------
(* C12.  The persisted day-counter changes only when a submit succeeds,    *)
(* and then by exactly one step, capped at 30: a failed submit, a portal   *)
(* change, a journal save, a send and the page's initialisation on the     *)
(* stored state all leave it as it was.                                    *)
C12_DayCounterFrame ==
  [][ page = "portal" =>
        IF \E i \in 1..MaxPending + 1, resp \in Responses :
             PortalResolve(i, resp) /\ Succeeded(resp)
        THEN ParseInt(mufasa_day')
               = IF ParseInt(mufasa_day) < 30 THEN ParseInt(mufasa_day) + 1 ELSE 30
        ELSE mufasa_day' = mufasa_day ]_vars

====
